---- MODULE Spec2Model ----
(***************************************************************************)
(* State-machine model of the LinkedIn data formatter's ingestion          *)
(* pipeline: the Excel batch path (api.process_excel_file driving          *)
(* linkedin_data_fetcher.batch_process_excel) and the CSV / single-URL     *)
(* path (linkedin_scraper.process_linkedin_data), over the relational      *)
(* store (db_utils.DatabaseManager) and the spreadsheet file               *)
(* (excel_writer.write_to_excel).                                          *)
(*                                                                         *)
(* Abstractions.  A profile is identified by the person it describes       *)
(* (ident) and a URL is a pair of that person and its spelling (canon:     *)
(* whether it is spelled exactly as "https://www.linkedin.com/in/<id>/"). *)
(* The educations, experiences and club_experiences tables are written by *)
(* the same statements in the same transaction everywhere in db_utils and *)
(* excel_writer; they are modelled as one table, "educations".  Every     *)
(* fetched profile has one such row; it has a certification row or not.   *)
(* Every database round trip and every spreadsheet access may raise: the  *)
(* fault is an input of the action that makes the call.                    *)
(***************************************************************************)
EXTENDS Integers, Sequences, FiniteSets, TLC

\* Bounds of the model.
MaxRuns == 2
MaxUrls == 2
NumIdents == 2
MaxFaults == 1

Idents == 1..NumIdents
Urls == [ident : Idents, canon : BOOLEAN]

\* Python's None, and the truth value of an int-or-None.
None == -1
Truthy(x) == x # None /\ x # 0

Max(S) == CHOOSE m \in S : \A n \in S : n <= m

RECURSIVE SeqToSet(_)
SeqToSet(s) == IF s = <<>> THEN {} ELSE {Head(s)} \cup SeqToSet(Tail(s))

RECURSIVE Filter(_, _)
\* [x for x in s if x.profile_url not in drop], for lists of profile metadata (URLs)
Filter(s, drop) ==
    IF s = <<>> THEN <<>>
    ELSE IF Head(s) \in drop THEN Filter(Tail(s), drop)
         ELSE <<Head(s)>> \o Filter(Tail(s), drop)

\* new_profiles[:limit] when limit is given and positive
Limit(s, limit) ==
    IF limit > 0 /\ limit < Len(s) THEN SubSeq(s, 1, limit) ELSE s

-----------------------------------------------------------------------------
(* The relational store: db_utils.DatabaseManager.                          *)

EmptyDb == [profiles |-> {}, educations |-> {}, certifications |-> {}]

\* A child row that carries the identifier before the increment.
ChildRowStale(pid, url) == [profile_id |-> pid - 1, of |-> url]

\* A row of the profiles table and a row of a child table.  "of" is the
\* URL of the profile whose fetched data the child row carries.
ProfileRow(pid, url) == [profile_id |-> pid, profile_url |-> url]
ChildRow(pid, url) == [profile_id |-> pid, of |-> url]

get_max_profile_id(d, fail) ==
    IF fail THEN 0
    ELSE IF d.profiles = {} THEN 0
    ELSE Max({r.profile_id : r \in d.profiles})

profile_exists(d, url, fail) ==
    IF fail THEN None
    ELSE IF \E r \in d.profiles : r.profile_url = url
         THEN (CHOOSE r \in d.profiles : r.profile_url = url).profile_id
         ELSE None

\* Faults of insert_single_profile: the URL query, the first commit (profile,
\* educations, experiences, club experiences), the second commit
\* (certifications).
SingleFaults == {"none", "query", "commit1", "commit2"}

insert_single_profile(d, profile, educations, certifications, fault) ==
    IF fault = "query" THEN [db |-> d, ok |-> FALSE]
    ELSE IF \E r \in d.profiles : r.profile_url = profile.profile_url
    THEN [db |-> d, ok |-> FALSE]                 \* already exists: skipped
    ELSE IF fault = "commit1"
            \* profile_id is UNIQUE: the INSERT raises IntegrityError
            \/ (\E r \in d.profiles : r.profile_id = profile.profile_id)
    THEN [db |-> d, ok |-> FALSE]                 \* rollback of everything
    ELSE LET d1 == [d EXCEPT !.profiles = @ \cup {profile},
                             !.educations = @ \cup SeqToSet(educations)]
         IN  \* first session.commit() done: d1 is durable
             IF fault = "commit2" /\ certifications # <<>>
             THEN [db |-> d1, ok |-> FALSE]       \* rollback of the certifications only
             ELSE [db |-> [d1 EXCEPT !.certifications = @ \cup SeqToSet(certifications)],
                   ok |-> TRUE]

RECURSIVE Upsert(_, _)
\* insert_data's loop over profiles_data: a row with the same profile_id is
\* updated with every key of the new profile (profile_url included),
\* otherwise the profile is added.
Upsert(rows, profiles_data) ==
    IF profiles_data = <<>> THEN rows
    ELSE LET p == Head(profiles_data)
         IN  Upsert({r \in rows : r.profile_id # p.profile_id} \cup {p},
                    Tail(profiles_data))

ProfileIds(profiles_data) == {p.profile_id : p \in SeqToSet(profiles_data)}

\* certifications_data=None, the default of insert_data.  Its only use is the
\* truth test "if profiles_data and certifications_data", where None and the
\* empty list behave alike.
NoCerts == <<>>

insert_data(d, profiles_data, educations_data, certifications_data, fault) ==
    IF fault THEN [db |-> d, ok |-> FALSE]        \* rollback
    ELSE LET ids == ProfileIds(profiles_data)
             replace(rows, new) ==
                 IF profiles_data # <<>>
                 THEN {r \in rows : r.profile_id \notin ids} \cup SeqToSet(new)
                 ELSE rows
         IN  [db |-> [profiles |-> Upsert(d.profiles, profiles_data),
                      educations |-> replace(d.educations, educations_data),
                      certifications |->
                          IF profiles_data # <<>> /\ certifications_data # <<>>
                          THEN replace(d.certifications, certifications_data)
                          ELSE d.certifications],
              ok |-> TRUE]

-----------------------------------------------------------------------------
(* The spreadsheet file: excel_writer.write_to_excel and the two readers.   *)

\* The five sheets.  "missing" is the set of sheets that a file lacks; the
\* table "educations" stands for the rows of Educations, Experiences and
\* Club Experiences.
SheetNames == {"Profiles", "Educations", "Experiences", "Club Experiences",
               "Certifications"}
\* The sheets that write_to_excel reads inside a try of their own.
OptionalSheets == {"Club Experiences", "Certifications"}

NoFile == [exists |-> FALSE, missing |-> {}, profiles |-> <<>>,
           educations |-> <<>>, certifications |-> <<>>]

\* What a caller passes where write_to_excel expects a list of rows.
List(rows) == [type |-> "list", rows |-> rows]
Str == [type |-> "str", rows |-> <<>>]

ProfileUrls(profiles) == {p.profile_url : p \in SeqToSet(profiles)}

\* A merge that keeps every existing row.
KeepAllRows(rows, urls) == rows

RECURSIVE DropUrls(_, _)
\* existing_profiles[~existing_profiles['profile_url'].isin(new['profile_url'])]
DropUrls(rows, urls) ==
    IF rows = <<>> THEN <<>>
    ELSE IF Head(rows).profile_url \in urls THEN DropUrls(Tail(rows), urls)
         ELSE <<Head(rows)>> \o DropUrls(Tail(rows), urls)

\* get_existing_profiles: the URLs of the Profiles sheet; the empty set when
\* the file is absent or cannot be read.
get_existing_profiles(x, fail) ==
    IF x.exists /\ ~fail THEN ProfileUrls(x.profiles) ELSE {}

\* write_to_excel(profiles, educations, experiences, club_experiences,
\* certifications, output_file): pd.DataFrame(certifications) raises when
\* certifications is not a list of rows; fault is an I/O error of the read or
\* of the write.  Returns the file and whether a path (not None) is returned.
write_to_excel(x, profiles, educations, certifications, fault) ==
    IF certifications.type # "list" \/ fault THEN [xl |-> x, ok |-> FALSE]
    ELSE IF x.exists
    THEN IF x.missing \ OptionalSheets # {}
         THEN [xl |-> x, ok |-> FALSE]     \* pd.read_excel raises: no such sheet
         ELSE [xl |-> [exists |-> TRUE, missing |-> {},
                       profiles |-> (IF profiles # <<>>
                                     THEN DropUrls(x.profiles, ProfileUrls(profiles))
                                     ELSE x.profiles) \o profiles,
                       educations |-> x.educations \o educations,
                       certifications |-> x.certifications \o certifications.rows],
               ok |-> TRUE]
    ELSE [xl |-> [exists |-> TRUE, missing |-> {}, profiles |-> profiles,
                  educations |-> educations,
                  certifications |-> certifications.rows],
          ok |-> TRUE]

\* The order in which the ExcelWriter block writes the sheets.
SheetOrder == <<"Profiles", "Educations", "Experiences", "Club Experiences",
                "Certifications">>

\* write_to_excel when the block "with pd.ExcelWriter(output_file, ...)"
\* fails or is interrupted after it wrote the first `written` sheets: the
\* writer works on output_file itself, which then holds those sheets only.
write_interrupted(x, profiles, educations, certifications, written) ==
    LET w == write_to_excel(x, profiles, educations, certifications, FALSE)
        done == {SheetOrder[k] : k \in 1..written}
    IN  IF ~w.ok THEN w
        ELSE [xl |-> [exists |-> TRUE, missing |-> SheetNames \ done,
                      profiles |-> IF "Profiles" \in done
                                   THEN w.xl.profiles ELSE <<>>,
                      educations |-> IF "Educations" \in done
                                     THEN w.xl.educations ELSE <<>>,
                      certifications |-> IF "Certifications" \in done
                                         THEN w.xl.certifications ELSE <<>>],
              ok |-> FALSE]

\* process_linkedin_data's read of the greatest profile_id of the Profiles
\* sheet: 0 when the file is absent, unreadable or empty.
excel_max_profile_id(x, fail) ==
    IF x.exists /\ ~fail /\ x.profiles # <<>>
    THEN Max(ProfileIds(x.profiles))
    ELSE 0

\* f"https://www.linkedin.com/in/{data.get('public_identifier', '')}/"
CanonicalUrl(data_ident) == [ident |-> data_ident, canon |-> TRUE]

-----------------------------------------------------------------------------
(* Provider records, strings and dates.                                     *)
(*                                                                         *)
(* A string is a sequence of words; a word is spelled in lower case or     *)
(* with capitals.  "k in s" for a keyword k is the occurrence of the word  *)
(* k, spelled in lower case, in s.  A value read from a JSON object is     *)
(* tagged: the key is missing, the value is null, or it is a value.        *)

MaxExps == 2

Word(w) == [w |-> w, cap |-> FALSE]
Cap(w) == [w |-> w, cap |-> TRUE]

Missing == [tag |-> "missing", s |-> <<>>]
Null == [tag |-> "null", s |-> <<>>]
StrV(s) == [tag |-> "str", s |-> s]

\* d.get(key, default)
Get(v, default) == IF v.tag = "missing" THEN default ELSE v
\* the truth value of a string or None
Nonempty(v) == v.tag = "str" /\ v.s # <<>>
\* str(v or '')
StrOrEmpty(v) == IF Nonempty(v) THEN v ELSE StrV(<<>>)

\* s.lower()
lower(s) == [k \in 1..Len(s) |-> [s[k] EXCEPT !.cap = FALSE]]
\* keyword in s
HasWord(keyword, s) == \E k \in 1..Len(s) : s[k] = Word(keyword)
\* a in b, for strings
IsIn(a, b) ==
    \E k \in 0..(Len(b) - Len(a)) : SubSeq(b, k + 1, k + Len(a)) = a

\* The values the provider sends for a title, a company and a full name.
\* "TeamLead": one word, written without a space, with two capitals.
TeamLead == StrV(<<Cap("teamlead")>>)
Titles == {Missing, Null, StrV(<<>>), StrV(<<Word("club")>>),
           StrV(<<Cap("founder")>>), StrV(<<Word("analyst")>>), TeamLead}
Companies == {Missing, Null, StrV(<<>>), StrV(<<Cap("club")>>),
              StrV(<<Word("walmart")>>), StrV(<<Cap("jane")>>)}
FullNames == {Missing, Null, StrV(<<>>), StrV(<<Cap("jane")>>)}
RawExperiences == [title : Titles, company : Companies]

\* The value of the key 'experiences': missing, null or a list.
NoList == [tag |-> "missing", items |-> <<>>]
NullList == [tag |-> "null", items |-> <<>>]
ListOf(items) == [tag |-> "list", items |-> items]
ExperienceLists ==
    {NoList, NullList} \cup
    {ListOf(l) : l \in UNION {[1..n -> RawExperiences] : n \in 0..MaxExps}}

ProviderRecords == [full_name : FullNames, experiences : ExperienceLists]

\* What a detector does: it returns a boolean or raises (AttributeError,
\* TypeError).
Returns(b) == [raised |-> FALSE, value |-> b]
Raises == [raised |-> TRUE, value |-> FALSE]

\* profile_data.get('experiences', []) and its truth value
Experiences(profile_data) ==
    IF profile_data.experiences.tag = "list"
    THEN profile_data.experiences.items ELSE <<>>

\* The reference set of large employers (fortune500_data.json), in lower case.
Fortune500 == {"walmart"}
\* normalize_company_name, then the direct and the fuzzy matching.
FortuneMatch(company_name) ==
    \E k \in 1..Len(company_name) : lower(company_name)[k].w \in Fortune500

is_fortune_500(profile_data) ==
    IF Experiences(profile_data) = <<>> THEN Returns(FALSE)
    ELSE LET company_name == Get(Experiences(profile_data)[1].company, StrV(<<>>))
         IN  IF ~Nonempty(company_name) THEN Returns(FALSE)
             ELSE Returns(FortuneMatch(company_name.s))

exact_keywords == {"executive", "exec", "director", "manager", "lead", "head",
                   "chief", "ceo", "cfo", "cto", "coo", "vp", "president",
                   "chair", "supervisor", "founder"}
\* process.extract(title, fuzzy_keywords, limit=3) with a score of at least
\* 65: a title that holds the two words of one of the phrases.
fuzzy_keywords == {<<"department", "head">>, <<"executive", "director">>,
                   <<"managing", "director">>, <<"senior", "manager">>,
                   <<"vice", "president">>, <<"general", "manager">>,
                   <<"regional", "manager">>}
FuzzyMatch(title) ==
    \E p \in fuzzy_keywords : HasWord(p[1], title) /\ HasWord(p[2], title)

\* The pieces of a word at the capitals of its spelling with capitals.
Parts(w) == IF w = "teamlead" THEN <<"team", "lead">> ELSE <<w>>
\* ''.join(' ' + c if c.isupper() and i > 0 else c ...): a word spelled with
\* capitals falls into its pieces, a word in lower case stays whole.
RECURSIVE SplitCamel(_)
SplitCamel(s) ==
    IF s = <<>> THEN <<>>
    ELSE (IF Head(s).cap
          THEN [k \in 1..Len(Parts(Head(s).w)) |-> Cap(Parts(Head(s).w)[k])]
          ELSE <<Head(s)>>) \o SplitCamel(Tail(s))

is_leadership_role(profile_data) ==
    IF Experiences(profile_data) = <<>> THEN Returns(FALSE)
    ELSE LET t == Get(Experiences(profile_data)[1].title, StrV(<<>>))
         IN  IF t.tag = "null" THEN Raises          \* None.lower()
             ELSE LET title == SplitCamel(lower(t.s))
                  IN  IF \E keyword \in exact_keywords : HasWord(keyword, title)
                      THEN Returns(TRUE)
                      ELSE Returns(FuzzyMatch(title))

\* 'serial entrepreneur' and 'business owner' occur where 'entrepreneur'
\* and 'owner' do.
entrepreneur_keywords == {"founder", "co-founder", "cofounder", "owner",
                          "entrepreneur", "startup", "start-up"}

\* A detector that lowers the full name before it looks at the experiences.
is_entrepreneur_name_first(profile_data) ==
    IF Get(profile_data.full_name, StrV(<<>>)).tag = "null" THEN Raises
    ELSE Returns(FALSE)

is_entrepreneur(profile_data) ==
    IF Experiences(profile_data) = <<>> THEN Returns(FALSE)
    ELSE LET latest_exp == Experiences(profile_data)[1]
             t == Get(latest_exp.title, StrV(<<>>))
             c == Get(latest_exp.company, StrV(<<>>))
             n == Get(profile_data.full_name, StrV(<<>>))
         IN  IF t.tag = "null" THEN Raises          \* None.lower()
             ELSE IF \E keyword \in entrepreneur_keywords :
                         HasWord(keyword, lower(t.s))
             THEN Returns(TRUE)
             ELSE IF c.tag = "null" \/ n.tag = "null" THEN Raises
             ELSE Returns(lower(n.s) # <<>> /\ IsIn(lower(n.s), lower(c.s)))

\* fetch_linkedin_data's result for the provider's response data: None when
\* building it raises (iterating over a null list), else the record with
\* its defaults.
FetchNone == [none |-> TRUE, full_name |-> Null, experiences |-> NoList]
UnknownName == StrV(<<Cap("unknown"), Cap("name")>>)
fetch_linkedin_data(data) ==
    IF data.experiences.tag = "null" THEN FetchNone
    ELSE [none |-> FALSE,
          full_name |-> Get(data.full_name, UnknownName),
          experiences |->
              ListOf([k \in 1..Len(data.experiences.items) |->
                         [title |-> StrOrEmpty(data.experiences.items[k].title),
                          company |-> StrOrEmpty(data.experiences.items[k].company)]])]

club_keywords == {"club", "society", "association", "committee", "chapter"}

\* A split that compares the company and the title as they are spelled.
is_club_as_spelled(experience) ==
    \E keyword \in club_keywords :
        \/ HasWord(keyword, StrOrEmpty(experience.company).s)
        \/ HasWord(keyword, StrOrEmpty(experience.title).s)

\* is_club of the two loops that split the experiences
is_club(experience) ==
    LET company == StrOrEmpty(experience.company).s
        title == StrOrEmpty(experience.title).s
    IN  \E keyword \in club_keywords :
            HasWord(keyword, lower(company)) \/ HasWord(keyword, lower(title))

RECURSIVE SplitExperiences(_)
\* The loop over profile_data['experiences']: the pair of
\* current_experiences and current_club_experiences.
SplitExperiences(experiences) ==
    IF experiences = <<>> THEN [experiences |-> <<>>, club_experiences |-> <<>>]
    ELSE LET rest == SplitExperiences(Tail(experiences))
         IN  IF is_club(Head(experiences))
             THEN [rest EXCEPT !.club_experiences = <<Head(experiences)>> \o @]
             ELSE [rest EXCEPT !.experiences = <<Head(experiences)>> \o @]

\* The flags of a fetched profile and its split experiences, as both loops
\* compute them: the detectors are called on the fetched record, then the
\* experiences are split.  An exception of a detector leaves the loop.
Classified(profile_data) ==
    LET l == is_leadership_role(profile_data)
        f == is_fortune_500(profile_data)
        e == is_entrepreneur(profile_data)
    IN  IF l.raised \/ f.raised \/ e.raised
        THEN [raised |-> TRUE, leadership_role |-> FALSE, fortune_500 |-> FALSE,
              entrepreneur |-> FALSE, split |-> SplitExperiences(<<>>)]
        ELSE [raised |-> FALSE, leadership_role |-> l.value,
              fortune_500 |-> f.value, entrepreneur |-> e.value,
              split |-> SplitExperiences(Experiences(profile_data))]

(* Dates.  A text is a sequence of characters.                             *)

MissingV == [tag |-> "missing", n |-> 0]
NullV == [tag |-> "null", n |-> 0]
IntV(n) == [tag |-> "int", n |-> n]

Months == {MissingV, NullV, IntV(5), IntV(12)}
Years == {MissingV, NullV, IntV(2020)}
NullDate == [tag |-> "null", day |-> FALSE, month |-> MissingV, year |-> MissingV]
DateDicts == {NullDate} \cup
             [tag : {"dict"}, day : BOOLEAN, month : Months, year : Years]

DigitChars == <<"0", "1", "2", "3", "4", "5", "6", "7", "8", "9">>
RECURSIVE Digits(_)
Digits(n) ==
    IF n < 10 THEN <<DigitChars[n + 1]>>
    ELSE Digits(n \div 10) \o <<DigitChars[(n % 10) + 1]>>

\* str(date_dict.get(key, ''))
StrOf(v) ==
    IF v.tag = "missing" THEN <<>>
    ELSE IF v.tag = "null" THEN <<"N", "o", "n", "e">>
    ELSE Digits(v.n)

RECURSIVE zfill(_, _)
zfill(text, width) ==
    IF Len(text) >= width THEN text ELSE zfill(<<"0">> \o text, width)

Present == <<"P", "r", "e", "s", "e", "n", "t">>
NotAvailable == <<"N", "/", "A">>

\* not date_dict
EmptyDate(date_dict) ==
    \/ date_dict.tag = "null"
    \/ (~date_dict.day /\ date_dict.month.tag = "missing"
                       /\ date_dict.year.tag = "missing")

format_date(date_dict) ==
    IF EmptyDate(date_dict) THEN Present
    ELSE LET month == zfill(StrOf(date_dict.month), 2)
             year == StrOf(date_dict.year)
         IN  IF month # <<>> /\ year # <<>>
             THEN month \o <<"/">> \o year
             ELSE NotAvailable

-----------------------------------------------------------------------------
(* Program state.                                                          *)

VARIABLES
    db,                  \* the relational store
    xl,                  \* the spreadsheet file SampleData.xlsx
    pc,                  \* "idle", "batch" (batch_process_excel's loop), "csv" (process_linkedin_data's loop)
    path,                \* history: the path of the current or last run: "none", "batch", "csv"
    runs,                \* runs started so far
    urls,                \* the URLs the running loop iterates over
    i,                   \* index in urls of the next URL to consider
    max_profile_id,      \* the in-memory high-water-mark
    profiles_data,       \* batch: profiles_data; csv: profiles
    educations_data,     \* batch: educations_data, ...; csv: educations, ...
    certifications_data, \* batch: certifications_data
    result,              \* outcome of the last run for its caller
    H,                   \* history: the high-water-mark the run started from
    hwm_failed,          \* history: the query of get_max_profile_id raised
    start_ids,           \* history: the profile_ids of the store when the run started
    log,                 \* history: one entry per URL considered by the run
    assigned,            \* history: every (profile_id, URL) ever assigned
    faults,              \* history: the faults raised so far
    submitted,           \* history: the URLs submitted so far, over all runs
    record,              \* the argument of the function under study (function-level specifications)
    out,                 \* its result
    report               \* what the last run reported: the database status of its profiles, the
                         \* number of collections batch_process_excel returned (0: none yet)

vars == <<db, xl, pc, path, runs, urls, i, max_profile_id, profiles_data,
          educations_data, certifications_data, result, H, hwm_failed,
          start_ids, log, assigned, faults, submitted, record, out, report>>

\* Inputs.  The batch path stores a URL as it was submitted, so that the
\* spelling only makes URLs distinct there: its input files list canonical
\* spellings.  The CSV path rewrites the URL and is given both spellings.
Lists(S) == UNION {[1..n -> S] : n \in 0..MaxUrls}
BatchInputs == Lists({u \in Urls : u.canon})
CsvInputs == Lists(Urls)

\* Nothing reported yet.
NoReport == [db |-> "none", returned |-> 0]

Init ==
    /\ db = EmptyDb
    /\ xl = NoFile
    /\ pc = "idle"
    /\ path = "none"
    /\ runs = 0
    /\ urls = <<>>
    /\ i = 1
    /\ max_profile_id = 0
    /\ profiles_data = <<>>
    /\ educations_data = <<>>
    /\ certifications_data = <<>>
    /\ result = "none"
    /\ H = 0
    /\ hwm_failed = FALSE
    /\ start_ids = {}
    /\ log = <<>>
    /\ assigned = {}
    /\ faults = 0
    /\ submitted = 0
    /\ record = <<>>
    /\ out = <<>>
    /\ report = NoReport

\* One entry of the history of a run.
Entry(url, disp, pid, in_db, own_fault) ==
    [url |-> url, disp |-> disp, profile_id |-> pid, in_db |-> in_db,
     own_fault |-> own_fault]

\* The environment raises n more faults, within the bound.
B2N(b) == IF b THEN 1 ELSE 0
Raise(n) == faults + n <= MaxFaults /\ faults' = faults + n

\* An input file of n URLs is submitted, within the bound.
Submit(n) == submitted + n <= MaxUrls /\ submitted' = submitted + n

StoredUrl(d, url) == \E r \in d.profiles : r.profile_url = url

-----------------------------------------------------------------------------
(* The Excel batch path.                                                   *)

\* batch_process_excel up to its loop.  file_urls are the rows of the input
\* file that process_excel_file keeps.
NewProfiles(file_urls, limit, xl_fail) ==
    Limit(Filter(file_urls, get_existing_profiles(xl, xl_fail)), limit)

\* The run's fresh in-memory state.
ResetRun ==
    /\ i' = 1
    /\ profiles_data' = <<>>
    /\ educations_data' = <<>>
    /\ certifications_data' = <<>>
    /\ log' = <<>>
    /\ start_ids' = {r.profile_id : r \in db.profiles}
    /\ runs' = runs + 1

\* "No valid LinkedIn profiles found" / "All profiles have already been
\* processed": a tuple of four lists is returned, which the caller unpacks
\* into five names.
\* return [], [], [], []
EarlyReturn == <<<<>>, <<>>, <<>>, <<>>>>

BatchNothingToDo(file_urls, limit, xl_fail) ==
    /\ UNCHANGED <<record, out>>
    /\ pc = "idle"
    /\ runs < MaxRuns
    /\ Submit(Len(file_urls))
    /\ NewProfiles(file_urls, limit, xl_fail) = <<>>
    /\ Raise(B2N(xl_fail))
    /\ ResetRun
    /\ urls' = <<>>
    /\ path' = "batch"
    /\ result' = "error_unexpected"
    /\ report' = [db |-> "none", returned |-> Len(EarlyReturn)]
    /\ UNCHANGED <<db, xl, pc, max_profile_id, H, hwm_failed, assigned>>

BatchBegin(file_urls, limit, xl_fail, hwm_fail) ==
    /\ UNCHANGED <<record, out>>
    /\ report' = NoReport
    /\ pc = "idle"
    /\ runs < MaxRuns
    /\ Submit(Len(file_urls))
    /\ NewProfiles(file_urls, limit, xl_fail) # <<>>
    /\ Raise(B2N(xl_fail) + B2N(hwm_fail))
    /\ ResetRun
    /\ urls' = NewProfiles(file_urls, limit, xl_fail)
    /\ max_profile_id' = get_max_profile_id(db, hwm_fail)
    /\ H' = get_max_profile_id(db, hwm_fail)
    /\ hwm_failed' = hwm_fail
    /\ pc' = "batch"
    /\ path' = "batch"
    /\ result' = "running"
    /\ UNCHANGED <<db, xl, assigned>>

\* The identifier given to a fetched profile (max_profile_id += 1).
NextId(max_id) == max_id + 1

\* A high-water-mark that a failed relational write takes back.
AdvanceOnlyOnSuccess(pid, ok) == IF ok THEN pid ELSE pid - 1

\* The in-memory high-water-mark at the end of an iteration that gave a
\* profile the identifier pid and whose relational write returned ok: the
\* increment precedes the write and nothing undoes it.
AdvancedMax(pid, ok) == pid

\* One iteration of batch_process_excel's loop.
BatchStep(lookup_fail, fetch_ok, has_cert, fault) ==
    /\ UNCHANGED <<record, out, report>>
    /\ pc = "batch"
    /\ i <= Len(urls)
    /\ Raise(B2N(lookup_fail) + B2N(fault # "none"))
    /\ LET url == urls[i]
           in_db == StoredUrl(db, url)
           existing_id == profile_exists(db, url, lookup_fail)
           pid == NextId(max_profile_id)
           profile == ProfileRow(pid, url)
           current_educations == <<ChildRow(pid, url)>>
           current_certifications ==
               IF has_cert THEN <<ChildRow(pid, url)>> ELSE <<>>
           ins == insert_single_profile(db, profile, current_educations,
                                        current_certifications, fault)
           \* history: the write failed where this call's own fault was raised
           own_fault == ~ins.ok /\ insert_single_profile(
                            db, profile, current_educations,
                            current_certifications, "none").ok
       IN  IF Truthy(existing_id)
           THEN /\ log' = Append(log, Entry(url, "duplicate", None, in_db, FALSE))
                /\ UNCHANGED <<db, max_profile_id, profiles_data,
                               educations_data, certifications_data, assigned>>
           ELSE IF ~fetch_ok
           THEN /\ log' = Append(log, Entry(url, "fetch_failed", None, in_db, FALSE))
                /\ UNCHANGED <<db, max_profile_id, profiles_data,
                               educations_data, certifications_data, assigned>>
           ELSE /\ max_profile_id' = AdvancedMax(pid, ins.ok)
                /\ assigned' = assigned \cup {profile}
                /\ db' = ins.db
                /\ IF ins.ok
                   THEN /\ profiles_data' = Append(profiles_data, profile)
                        /\ educations_data' = educations_data \o current_educations
                        /\ certifications_data' =
                               certifications_data \o current_certifications
                        /\ log' = Append(log, Entry(url, "saved", pid, in_db, FALSE))
                   ELSE /\ UNCHANGED <<profiles_data, educations_data,
                                       certifications_data>>
                        /\ log' = Append(log, Entry(url, "db_failed", pid, in_db, own_fault))
    /\ i' = i + 1
    /\ UNCHANGED <<xl, pc, path, runs, urls, result, H, hwm_failed,
                   start_ids, submitted>>

\* The experiences of the responses given to the two loops: every response
\* on which a detector raises has the same effect on a run.
LoopExperiences ==
    [title : {StrV(<<Word("analyst")>>), StrV(<<Cap("founder")>>)},
     company : {StrV(<<Word("walmart")>>)}]

\* A provider response with one experience.
OneExperience(full_name, experience) ==
    [full_name |-> full_name, experiences |-> ListOf(<<experience>>)]

\* An iteration of batch_process_excel's loop in which a detector raises:
\* no except clause of the loop or of batch_process_excel catches it, and
\* api.process_excel_file answers with "An unexpected error occurred".
BatchRaise(lookup_fail, full_name, experience) ==
    /\ UNCHANGED <<record, out, report>>
    /\ pc = "batch"
    /\ i <= Len(urls)
    /\ Raise(B2N(lookup_fail))
    /\ ~Truthy(profile_exists(db, urls[i], lookup_fail))
    /\ Classified(fetch_linkedin_data(OneExperience(full_name, experience))).raised
    /\ max_profile_id' = NextId(max_profile_id)
    /\ assigned' = assigned \cup {ProfileRow(NextId(max_profile_id), urls[i])}
    /\ pc' = "idle"
    /\ result' = "error_unexpected"
    /\ UNCHANGED <<db, xl, path, runs, urls, i, profiles_data, educations_data,
                   certifications_data, H, hwm_failed, start_ids, log, submitted>>

\* return profiles_data, educations_data, experiences_data,
\* club_experiences_data, certifications_data
ReturnedCollections == Len(<<profiles_data, educations_data, educations_data,
                             educations_data, certifications_data>>)

\* api.process_excel_file after batch_process_excel returned its five lists.
BatchFinish(xl_fault, db_fault) ==
    /\ UNCHANGED <<record, out>>
    /\ pc = "batch"
    /\ i > Len(urls)
    /\ Raise(B2N(xl_fault) + B2N(db_fault))
    /\ pc' = "idle"
    /\ IF profiles_data = <<>>
       THEN /\ result' = "error_no_profiles"
            /\ report' = [db |-> "none", returned |-> ReturnedCollections]
            /\ UNCHANGED <<db, xl>>
       ELSE LET w == write_to_excel(xl, profiles_data, educations_data,
                                    List(certifications_data), xl_fault)
                r == insert_data(db, profiles_data, educations_data,
                                 certifications_data, db_fault)
            IN  /\ xl' = w.xl
                /\ db' = r.db
                /\ result' = IF w.ok THEN "success" ELSE "error_excel"
                \* insert_data logs the status of its commit for every profile
                /\ report' = [db |-> IF r.ok THEN "saved" ELSE "failed",
                              returned |-> ReturnedCollections]
    /\ UNCHANGED <<path, runs, urls, i, max_profile_id, profiles_data,
                   educations_data, certifications_data, H, hwm_failed,
                   start_ids, log, assigned, submitted>>

-----------------------------------------------------------------------------
(* The CSV / single-URL path: process_linkedin_data.                        *)

CsvBegin(csv_urls, xl_fail) ==
    /\ UNCHANGED <<record, out>>
    /\ report' = NoReport
    /\ pc = "idle"
    /\ runs < MaxRuns
    /\ Submit(Len(csv_urls))
    /\ csv_urls # <<>>
    /\ Raise(B2N(xl_fail))
    /\ ResetRun
    /\ urls' = csv_urls
    /\ max_profile_id' = excel_max_profile_id(xl, xl_fail)
    /\ H' = excel_max_profile_id(xl, xl_fail)
    /\ hwm_failed' = FALSE
    /\ pc' = "csv"
    /\ path' = "csv"
    /\ result' = "running"
    /\ UNCHANGED <<db, xl, assigned>>

\* One iteration of process_linkedin_data's loop.
CsvStep(fetch_ok) ==
    /\ UNCHANGED <<record, out, report>>
    /\ pc = "csv"
    /\ i <= Len(urls)
    /\ LET url == urls[i]
           pid == NextId(max_profile_id)
           profile == ProfileRow(pid, CanonicalUrl(url.ident))
       IN  IF fetch_ok
           THEN /\ max_profile_id' = pid
                /\ profiles_data' = Append(profiles_data, profile)
                /\ educations_data' =
                       Append(educations_data, ChildRow(pid, profile.profile_url))
                /\ assigned' = assigned \cup {profile}
                /\ log' = Append(log, Entry(url, "processed", pid,
                                            StoredUrl(db, profile.profile_url), FALSE))
           ELSE /\ log' = Append(log, Entry(url, "fetch_failed", None,
                                            StoredUrl(db, profile.profile_url), FALSE))
                /\ UNCHANGED <<max_profile_id, profiles_data, educations_data,
                               assigned>>
    /\ i' = i + 1
    /\ UNCHANGED <<db, xl, pc, path, runs, urls, certifications_data, result, H,
                   hwm_failed, start_ids, faults, submitted>>

\* An iteration of process_linkedin_data's loop in which a detector raises:
\* the exception leaves process_linkedin_data and api.process_csv answers
\* with "An unexpected error occurred".
CsvRaise(full_name, experience) ==
    /\ UNCHANGED <<record, out, report>>
    /\ pc = "csv"
    /\ i <= Len(urls)
    /\ Classified(fetch_linkedin_data(OneExperience(full_name, experience))).raised
    /\ max_profile_id' = NextId(max_profile_id)
    /\ assigned' = assigned \cup
           {ProfileRow(NextId(max_profile_id), CanonicalUrl(urls[i].ident))}
    /\ pc' = "idle"
    /\ result' = "error_unexpected"
    /\ UNCHANGED <<db, xl, path, runs, urls, i, profiles_data, educations_data,
                   certifications_data, H, hwm_failed, start_ids, log, faults,
                   submitted>>

\* The end of process_linkedin_data: insert_data, then write_to_excel called
\* with five positional arguments, so that output_file is bound to the
\* parameter certifications.
CsvFinish(db_fault) ==
    /\ UNCHANGED <<record, out>>
    /\ pc = "csv"
    /\ i > Len(urls)
    /\ Raise(B2N(db_fault))
    /\ pc' = "idle"
    /\ IF profiles_data # <<>>
       THEN LET r == insert_data(db, profiles_data, educations_data, NoCerts,
                                 db_fault)
                w == write_to_excel(xl, profiles_data, educations_data, Str, FALSE)
            IN  /\ db' = r.db
                /\ xl' = w.xl
                /\ result' = IF w.ok THEN "success" ELSE "error"
                \* insert_data returns False on a rollback and does not raise:
                \* the "save ... success" branch logs every profile as saved
                /\ report' = [db |-> "saved", returned |-> 0]
       ELSE /\ result' = "error"
            /\ report' = NoReport
            /\ UNCHANGED <<db, xl>>
    /\ UNCHANGED <<path, runs, urls, i, max_profile_id, profiles_data,
                   educations_data, certifications_data, H, hwm_failed,
                   start_ids, log, assigned, submitted>>

-----------------------------------------------------------------------------

Next ==
    \/ \E file_urls \in BatchInputs, limit \in {0, 1}, xl_fail \in BOOLEAN :
           BatchNothingToDo(file_urls, limit, xl_fail)
    \/ \E file_urls \in BatchInputs, limit \in {0, 1},
          xl_fail \in BOOLEAN, hwm_fail \in BOOLEAN :
           BatchBegin(file_urls, limit, xl_fail, hwm_fail)
    \/ \E lookup_fail \in BOOLEAN, fetch_ok \in BOOLEAN, has_cert \in BOOLEAN,
          fault \in SingleFaults :
           BatchStep(lookup_fail, fetch_ok, has_cert, fault)
    \/ \E lookup_fail \in BOOLEAN, full_name \in FullNames,
          experience \in LoopExperiences :
           BatchRaise(lookup_fail, full_name, experience)
    \/ \E xl_fault \in BOOLEAN, db_fault \in BOOLEAN : BatchFinish(xl_fault, db_fault)
    \/ \E csv_urls \in CsvInputs, xl_fail \in BOOLEAN : CsvBegin(csv_urls, xl_fail)
    \/ \E fetch_ok \in BOOLEAN : CsvStep(fetch_ok)
    \/ \E full_name \in FullNames, experience \in LoopExperiences :
           CsvRaise(full_name, experience)
    \/ \E db_fault \in BOOLEAN : CsvFinish(db_fault)

Spec == Init /\ [][Next]_vars

\* The Excel batch path alone.
NextBatch ==
    \/ \E file_urls \in BatchInputs, limit \in {0, 1}, xl_fail \in BOOLEAN :
           BatchNothingToDo(file_urls, limit, xl_fail)
    \/ \E file_urls \in BatchInputs, limit \in {0, 1},
          xl_fail \in BOOLEAN, hwm_fail \in BOOLEAN :
           BatchBegin(file_urls, limit, xl_fail, hwm_fail)
    \/ \E lookup_fail \in BOOLEAN, fetch_ok \in BOOLEAN, has_cert \in BOOLEAN,
          fault \in SingleFaults :
           BatchStep(lookup_fail, fetch_ok, has_cert, fault)
    \/ \E lookup_fail \in BOOLEAN, full_name \in FullNames,
          experience \in LoopExperiences :
           BatchRaise(lookup_fail, full_name, experience)
    \/ \E xl_fault \in BOOLEAN, db_fault \in BOOLEAN : BatchFinish(xl_fault, db_fault)

SpecBatch == Init /\ [][NextBatch]_vars

-----------------------------------------------------------------------------
(* write_to_excel on its own: every existing file and every batch.          *)

\* The lists of length 1..NumIdents of distinct canonical URLs.
UrlLists ==
    {l \in UNION {[1..n -> {u \in Urls : u.canon}] : n \in 1..NumIdents} :
        \A j, k \in 1..Len(l) : l[j] = l[k] => j = k}

\* The rows of the profiles l, numbered from first + 1.
ProfileRows(l, first) == [k \in 1..Len(l) |-> ProfileRow(first + k, l[k])]
ChildRows(l, first) == [k \in 1..Len(l) |-> ChildRow(first + k, l[k])]

\* A file that an earlier run wrote for the profiles l, which now lacks the
\* sheets of missing.
FileOf(l, missing) ==
    [exists |-> TRUE, missing |-> missing,
     profiles |-> IF "Profiles" \in missing THEN <<>> ELSE ProfileRows(l, 0),
     educations |-> ChildRows(l, 0),
     certifications |-> IF "Certifications" \in missing THEN <<>>
                        ELSE ChildRows(l, 0)]

ExcelFiles ==
    {NoFile} \cup
    {FileOf(l, m) : l \in UrlLists, m \in {{}} \cup {{n} : n \in SheetNames}}

InitExcel ==
    /\ xl \in ExcelFiles
    /\ \E l \in UrlLists, with_certs \in BOOLEAN :
           /\ profiles_data = ProfileRows(l, NumIdents)
           /\ educations_data = ChildRows(l, NumIdents)
           /\ certifications_data =
                  IF with_certs THEN ChildRows(l, NumIdents) ELSE <<>>
    /\ pc = "excel"
    /\ db = EmptyDb
    /\ path = "none"
    /\ runs = 0
    /\ urls = <<>>
    /\ i = 1
    /\ max_profile_id = 0
    /\ result = "none"
    /\ H = 0
    /\ hwm_failed = FALSE
    /\ start_ids = {}
    /\ log = <<>>
    /\ assigned = {}
    /\ faults = 0
    /\ submitted = 0
    /\ record = <<>>
    /\ out = <<>>
    /\ report = NoReport

\* One call write_to_excel(profiles_data, ..., certifications_data).
ExcelWrite(fault) ==
    /\ pc = "excel"
    /\ Raise(B2N(fault))
    /\ out' = write_to_excel(xl, profiles_data, educations_data,
                             List(certifications_data), fault)
    /\ pc' = "excel_done"
    /\ UNCHANGED <<db, xl, path, runs, urls, i, max_profile_id, profiles_data,
                   educations_data, certifications_data, result, H, hwm_failed,
                   start_ids, log, assigned, submitted, record, report>>

\* One call of write_to_excel whose writing fails after `written` sheets.
ExcelWriteInterrupted(written) ==
    /\ pc = "excel"
    /\ Raise(1)
    /\ write_to_excel(xl, profiles_data, educations_data,
                      List(certifications_data), FALSE).ok
    /\ out' = write_interrupted(xl, profiles_data, educations_data,
                                List(certifications_data), written)
    /\ pc' = "excel_done"
    /\ UNCHANGED <<db, xl, path, runs, urls, i, max_profile_id, profiles_data,
                   educations_data, certifications_data, result, H, hwm_failed,
                   start_ids, log, assigned, submitted, record, report>>

NextExcel ==
    \/ \E fault \in BOOLEAN : ExcelWrite(fault)
    \/ \E written \in 0..(Len(SheetOrder) - 1) : ExcelWriteInterrupted(written)

SpecExcel == InitExcel /\ [][NextExcel]_vars

-----------------------------------------------------------------------------
(* The detectors and the split of the experiences on their own: every      *)
(* provider record.                                                        *)

InitFlags ==
    /\ record \in ProviderRecords
    /\ pc = "flags"
    /\ db = EmptyDb
    /\ xl = NoFile
    /\ path = "none"
    /\ runs = 0
    /\ urls = <<>>
    /\ i = 1
    /\ max_profile_id = 0
    /\ profiles_data = <<>>
    /\ educations_data = <<>>
    /\ certifications_data = <<>>
    /\ result = "none"
    /\ H = 0
    /\ hwm_failed = FALSE
    /\ start_ids = {}
    /\ log = <<>>
    /\ assigned = {}
    /\ faults = 0
    /\ submitted = 0
    /\ out = <<>>
    /\ report = NoReport

FlagsUnchanged ==
    UNCHANGED <<db, xl, path, runs, urls, i, max_profile_id, profiles_data,
                educations_data, certifications_data, result, H, hwm_failed,
                start_ids, log, assigned, faults, submitted, record, report>>

\* The three detectors called on the record as it is.
Detect ==
    /\ pc = "flags"
    /\ out' = [leadership_role |-> is_leadership_role(record),
               fortune_500 |-> is_fortune_500(record),
               entrepreneur |-> is_entrepreneur(record)]
    /\ pc' = "detected"
    /\ FlagsUnchanged

\* fetch_linkedin_data on the provider's response, then the flags and the
\* split of the loop body.
FetchAndClassify ==
    /\ pc = "flags"
    /\ LET profile_data == fetch_linkedin_data(record)
       IN  IF profile_data.none
           THEN /\ out' = [none |-> TRUE]
                /\ pc' = "fetch_failed"
           ELSE /\ out' = Classified(profile_data)
                /\ pc' = "classified"
    /\ FlagsUnchanged

NextFlags == Detect \/ FetchAndClassify

SpecFlags == InitFlags /\ [][NextFlags]_vars

-----------------------------------------------------------------------------
(* format_date on its own: the start and the end date of every entry.       *)

InitDates ==
    /\ record \in [starts_at : DateDicts, ends_at : DateDicts]
    /\ pc = "dates"
    /\ db = EmptyDb
    /\ xl = NoFile
    /\ path = "none"
    /\ runs = 0
    /\ urls = <<>>
    /\ i = 1
    /\ max_profile_id = 0
    /\ profiles_data = <<>>
    /\ educations_data = <<>>
    /\ certifications_data = <<>>
    /\ result = "none"
    /\ H = 0
    /\ hwm_failed = FALSE
    /\ start_ids = {}
    /\ log = <<>>
    /\ assigned = {}
    /\ faults = 0
    /\ submitted = 0
    /\ out = <<>>
    /\ report = NoReport

\* fetch_linkedin_data's formatting of an education or experience entry.
FormatDates ==
    /\ pc = "dates"
    /\ out' = [start_date |-> format_date(record.starts_at),
               end_date |-> format_date(record.ends_at)]
    /\ pc' = "formatted"
    /\ FlagsUnchanged

NextDates == FormatDates

SpecDates == InitDates /\ [][NextDates]_vars

(***************************************************************************)
(* The list-valued fields of a profile on their way to the sinks.          *)
(*                                                                         *)
(* A field value is a list or a string; the string made by ", ".join is    *)
(* the sequence of the items with the separator between them.              *)
(***************************************************************************)
MaxItems == 2

ItemNames == {"first", "second"}
ItemLists == UNION {[1..n -> ItemNames] : n \in 0..MaxItems}
\* The provider's response: skills and languages are lists of strings,
\* certifications a list of objects with a name, education and experiences
\* lists of objects.
ListRecords == [skills : ItemLists, languages : ItemLists,
                certifications : ItemLists,
                education : {<<>>, <<"school">>},
                experiences : {<<>>, <<"job">>}]

\* ", ".join(l)
RECURSIVE Join(_)
Join(l) ==
    IF Len(l) <= 1 THEN l ELSE <<Head(l), ", ">> \o Join(Tail(l))
AsStr(l) == [type |-> "str", items |-> Join(l)]
AsList(l) == [type |-> "list", items |-> l]

\* The list-valued keys of fetch_linkedin_data's record.
fetched_lists(data) ==
    [skills |-> AsStr(data.skills),
     languages |-> AsList(data.languages),
     certifications |->
         AsList([k \in 1..Len(data.certifications) |->
                    [name |-> data.certifications[k]]]),
     educations |-> AsList(data.education),
     experiences |-> AsList(data.experiences)]

\* The keys of a profile row that the relational store reads.
store_row(profile) ==
    [skills |-> profile.skills, languages |-> profile.languages]

\* batch_process_excel: the record itself is the profile row.
batch_profile_row(profile_data) == profile_data

\* process_linkedin_data: profile_dict.
csv_profile_row(data) ==
    [skills |-> data.skills,
     languages |-> AsStr(data.languages.items),
     certifications |->
         AsStr([k \in 1..Len(data.certifications.items) |->
                   data.certifications.items[k].name])]

InitRows ==
    /\ record \in ListRecords
    /\ pc = "rows"
    /\ db = EmptyDb
    /\ xl = NoFile
    /\ path = "none"
    /\ runs = 0
    /\ urls = <<>>
    /\ i = 1
    /\ max_profile_id = 0
    /\ profiles_data = <<>>
    /\ educations_data = <<>>
    /\ certifications_data = <<>>
    /\ result = "none"
    /\ H = 0
    /\ hwm_failed = FALSE
    /\ start_ids = {}
    /\ log = <<>>
    /\ assigned = {}
    /\ faults = 0
    /\ submitted = 0
    /\ out = <<>>
    /\ report = NoReport

\* batch_process_excel hands the row to insert_single_profile and, at the
\* end of the run, to write_to_excel.
BatchRow ==
    /\ pc = "rows"
    /\ LET row == batch_profile_row(fetched_lists(record))
       IN  out' = [store |-> store_row(row), sheet |-> row]
    /\ pc' = "batch_row"
    /\ FlagsUnchanged

\* process_linkedin_data hands the row to insert_data and to write_to_excel.
CsvRow ==
    /\ pc = "rows"
    /\ LET row == csv_profile_row(fetched_lists(record))
       IN  out' = [store |-> store_row(row), sheet |-> row]
    /\ pc' = "csv_row"
    /\ FlagsUnchanged

NextRows == BatchRow \/ CsvRow

SpecRows == InitRows /\ [][NextRows]_vars

-----------------------------------------------------------------------------
(* Properties.                                                             *)

RECURSIVE Select(_, _)
\* The entries of a run's history with one of the dispositions disps.
Select(entries, disps) ==
    IF entries = <<>> THEN <<>>
    ELSE IF Head(entries).disp \in disps
         THEN <<Head(entries)>> \o Select(Tail(entries), disps)
         ELSE Select(Tail(entries), disps)

\* The URLs of a batch that were not duplicates and were fetched.
Fetched == Select(log, {"saved", "db_failed"})

HasRow(rows, pid, url) == ProfileRow(pid, url) \in rows

\* C1: in a run of batch_process_excel that starts from the high-water-mark
\* H, the k-th URL that is not a duplicate and is fetched gets the
\* identifier H + k, whatever the outcome of the earlier relational writes;
\* so the identifiers of a batch are H+1..H+N in submission order, each once.
C1_IdsConsecutiveFromH ==
    path = "batch" =>
        \A k \in 1..Len(Fetched) : Fetched[k].profile_id = H + k

\* C1 witness: two profiles were fetched in one batch, and the relational
\* write of the first one failed.
C1_Witness ==
    /\ path = "batch"
    /\ Len(Fetched) = 2
    /\ Fetched[1].disp = "db_failed"
    /\ Fetched[2].profile_id = H + 2

\* C2: a URL that is in the relational store when the batch resolves it is
\* a Duplicate: it is not fetched and consumes no identifier.
C2_StoredUrlIsDuplicate ==
    path = "batch" =>
        \A k \in 1..Len(log) : log[k].in_db => log[k].disp = "duplicate"

\* C3: after a run of process_linkedin_data in which the same source URL
\* was submitted twice, the relational store holds one profile for it.
C3_OneProfilePerUrl ==
    (path = "csv" /\ pc = "idle") =>
        \A j, k \in 1..Len(log) :
            (j < k /\ log[j].url = log[k].url) =>
                Cardinality({r \in db.profiles :
                    r.profile_url = CanonicalUrl(log[j].url.ident)}) <= 1

\* C4: when the query of get_max_profile_id fails the batch aborts: no URL
\* is fetched, no identifier is assigned, no row is written.
C4_AbortOnUnreadableHwm ==
    (path = "batch" /\ hwm_failed) =>
        \A k \in 1..Len(log) : log[k].disp = "duplicate"

\* C5: over any sequence of batches, an identifier that was assigned to a
\* profile is never assigned to a different profile.
C5_IdNeverReused ==
    \A a, b \in assigned :
        a.profile_id = b.profile_id => a.profile_url = b.profile_url

\* C6: every identifier assigned by process_linkedin_data is greater than
\* every profile_id the relational store held when the run started.
C6_AboveStoredIds ==
    path = "csv" =>
        \A k \in 1..Len(log) :
            log[k].disp = "processed" =>
                \A id \in start_ids : log[k].profile_id > id

\* C7: a call of insert_single_profile that reports failure leaves the
\* relational store as it was, and one that reports success has committed
\* the profile row and all of its child rows.
C7_SingleProfileAtomic ==
    [][(path' = "batch" /\ Len(log') = Len(log) + 1) =>
           LET e == log'[Len(log')]
           IN  /\ e.disp = "db_failed" => db' = db
               /\ e.disp = "saved" =>
                      /\ HasRow(db'.profiles, e.profile_id, e.url)
                      /\ ChildRow(e.profile_id, e.url) \in db'.educations
                      /\ SeqToSet(certifications_data') \subseteq db'.certifications
       ]_vars

\* C8: a profile whose relational write failed in batch_process_excel has its
\* row in the spreadsheet once the end-of-run write succeeded.
C8_FailedWriteStillInSheet ==
    (path = "batch" /\ pc = "idle" /\ result = "success") =>
        \A k \in 1..Len(log) :
            log[k].disp = "db_failed" =>
                HasRow(SeqToSet(xl.profiles), log[k].profile_id, log[k].url)

\* C9: in a batch, a profile B that is processed after a profile A whose
\* relational write failed is committed to the relational store, is handed
\* to the end-of-run write and is in the spreadsheet once that write
\* succeeded; B's own relational write fails only for a cause that is not
\* A's failure: a fault raised by B's own write, or B's identifier or URL
\* being in the store already when the batch started or B was resolved.
C9_FailureIsolation ==
    path = "batch" =>
        \A j, k \in 1..Len(log) :
            (/\ j < k
             /\ log[j].disp = "db_failed"
             /\ log[k].url # log[j].url
             /\ log[k].disp \in {"saved", "db_failed"}) =>
                /\ log[k].disp = "db_failed" =>
                       \/ log[k].own_fault
                       \/ log[k].in_db
                       \/ log[k].profile_id \in start_ids
                /\ log[k].disp = "saved" =>
                       /\ HasRow(db.profiles, log[k].profile_id, log[k].url)
                       /\ HasRow(SeqToSet(profiles_data), log[k].profile_id,
                                 log[k].url)
                       /\ (pc = "idle" /\ result = "success") =>
                              HasRow(SeqToSet(xl.profiles), log[k].profile_id,
                                     log[k].url)

\* C9 witness: the write of the first profile of a batch failed, the second
\* profile was saved, and the end-of-run spreadsheet write succeeded.
C9_Witness ==
    /\ path = "batch" /\ pc = "idle" /\ result = "success"
    /\ Len(log) = 2
    /\ log[1].disp = "db_failed"
    /\ log[2].disp = "saved"
    /\ log[2].url # log[1].url
    /\ HasRow(SeqToSet(xl.profiles), log[2].profile_id, log[2].url)

\* C10: in both ingestion paths, whenever the loop is between two URLs, every
\* profile classified so far whose relational write has not failed is
\* committed in the relational store.
C10_CommittedBeforeNextUrl ==
    pc \in {"batch", "csv"} =>
        \A k \in 1..Len(log) :
            log[k].disp \in {"saved", "processed"} =>
                \E r \in db.profiles : r.profile_id = log[k].profile_id

\* The write under study returned the output path for an existing file.
Merged == pc = "excel_done" /\ out.ok /\ xl.exists

NewUrls == {profiles_data[k].profile_url : k \in 1..Len(profiles_data)}

\* C11: write_to_excel on an existing file produces a Profiles table equal
\* to the existing rows whose profile_url is not among the new profiles,
\* followed by the new rows; no URL has two rows, and a batch with one
\* overlapping and one new URL leaves (existing count + 1) rows.
C11_MergeReplacesProfile ==
    Merged =>
        LET NotNew(r) == r.profile_url \notin NewUrls
            overlap == {k \in 1..Len(xl.profiles) : ~NotNew(xl.profiles[k])}
            table == out.xl.profiles
        IN  /\ table = SelectSeq(xl.profiles, NotNew) \o profiles_data
            /\ \A j, k \in 1..Len(table) :
                   table[j].profile_url = table[k].profile_url => j = k
            /\ (Len(profiles_data) = 2 /\ Cardinality(overlap) = 1) =>
                   Len(table) = Len(xl.profiles) + 1

\* C11 witness: a batch of two profiles, one of them with the URL of the
\* only row of the existing file, was merged.
C11_Witness ==
    /\ Merged
    /\ Len(profiles_data) = 2
    /\ Len(xl.profiles) = 1
    /\ xl.profiles[1].profile_url \in NewUrls
    /\ Len(out.xl.profiles) = 2
    /\ out.xl.profiles[1].profile_id # xl.profiles[1].profile_id

\* C12: after the merge of a batch, the child tables hold for a profile of
\* the batch only the child rows of the batch.
C12_ChildRowsReplaced ==
    Merged =>
        /\ \A k \in 1..Len(out.xl.educations) :
               out.xl.educations[k].of \in NewUrls =>
                   out.xl.educations[k] \in SeqToSet(educations_data)
        /\ \A k \in 1..Len(out.xl.certifications) :
               out.xl.certifications[k].of \in NewUrls =>
                   out.xl.certifications[k] \in SeqToSet(certifications_data)

\* C13: when the existing file lacks one of the five sheets and no I/O error
\* occurs, write_to_excel returns the output path and the file it wrote has
\* all five sheets.
C13_MissingSheetIsEmpty ==
    (pc = "excel_done" /\ xl.exists /\ xl.missing # {} /\ faults = 0) =>
        out.ok /\ out.xl.exists /\ out.xl.missing = {}

\* A value that is absent, null or empty.
Blank(v) == ~Nonempty(v)
NoRaise(r) == ~r.raised
False(r) == ~r.raised /\ ~r.value

\* The record the detectors would see if they were given the employment-only
\* experiences of a classified profile.
EmploymentOnly ==
    [full_name |-> fetch_linkedin_data(record).full_name,
     experiences |-> ListOf(out.split.experiences)]

\* C14: the three flags of a classified profile are those of the first
\* entry of its employment-only experience list.
C14_FlagsFromEmploymentList ==
    (pc = "classified" /\ ~out.raised) =>
        /\ NoRaise(is_leadership_role(EmploymentOnly))
               => out.leadership_role = is_leadership_role(EmploymentOnly).value
        /\ out.fortune_500 = is_fortune_500(EmploymentOnly).value
        /\ NoRaise(is_entrepreneur(EmploymentOnly))
               => out.entrepreneur = is_entrepreneur(EmploymentOnly).value

\* C15: for a profile whose experience list is empty or absent the three
\* detectors return false and none raises.
C15_NoExperienceNoFlag ==
    (pc = "detected" /\ Experiences(record) = <<>>) =>
        /\ False(out.leadership_role)
        /\ False(out.fortune_500)
        /\ False(out.entrepreneur)

\* C15 witness: the detectors ran on a record without the key 'experiences'
\* and with a null full name.
C15_Witness ==
    /\ pc = "detected"
    /\ record.experiences.tag = "missing"
    /\ record.full_name.tag = "null"
    /\ False(out.entrepreneur)

\* C16: a detector returns false without raising when what it reads is
\* absent, empty or null: the title for is_leadership_role, the company for
\* is_fortune_500, the title and the company or the full name for
\* is_entrepreneur; and no detector raises on a record that
\* fetch_linkedin_data built from a response with a null full name.
C16_BlankInputsAreFalse ==
    /\ (pc = "detected" /\ Experiences(record) # <<>>) =>
           LET first == Experiences(record)[1]
           IN  /\ Blank(first.title) => False(out.leadership_role)
               /\ Blank(first.company) => False(out.fortune_500)
               /\ (Blank(first.title) /\
                      (Blank(first.company) \/ Blank(record.full_name)))
                       => False(out.entrepreneur)
    /\ (pc = "classified" /\ record.full_name.tag = "null") => ~out.raised

\* C18: each experience of a fetched profile is in exactly one of the two
\* collections, in the club collection exactly when its company or its
\* title holds one of the five keywords in any spelling; an entry of the
\* company "Debate Club" is never in the employment collection.
C18_ExperiencePartition ==
    (pc = "classified" /\ ~out.raised) =>
        LET all == fetch_linkedin_data(record).experiences.items
            Keyword(s) ==
                \E k \in 1..Len(s) :
                    s[k].w \in {"club", "society", "association", "committee", "chapter"}
            Club(e) == Keyword(e.company.s) \/ Keyword(e.title.s)
            Employment(e) == ~Club(e)
        IN  /\ out.split.club_experiences = SelectSeq(all, Club)
            /\ out.split.experiences = SelectSeq(all, Employment)
            /\ Len(out.split.club_experiences) + Len(out.split.experiences) = Len(all)
            /\ \A k \in 1..Len(out.split.experiences) :
                   out.split.experiences[k].company # StrV(<<Cap("club")>>)

\* C18 witness: a profile with one entry of the company "Club" and one
\* employment entry was split.
C18_Witness ==
    /\ pc = "classified" /\ ~out.raised
    /\ Len(out.split.club_experiences) = 1
    /\ Len(out.split.experiences) = 1
    /\ out.split.club_experiences[1].company = StrV(<<Cap("club")>>)
    /\ out.split.club_experiences[1].title = StrV(<<Word("analyst")>>)

\* C17: when a run of batch_process_excel has ended, every URL of the batch
\* has reached a disposition: no profile stops the loop from considering
\* the URLs after it.
C17_EveryUrlDisposed ==
    (path = "batch" /\ pc = "idle") => Len(log) = Len(urls)

\* C19: every child row of the collections of a run carries the profile_id
\* of a profile row of the same collections.
C19_ChildRowsReferenceBatch ==
    pc \in {"idle", "batch", "csv"} =>
        \A c \in SeqToSet(educations_data) \cup SeqToSet(certifications_data) :
            \E k \in 1..Len(profiles_data) :
                profiles_data[k].profile_id = c.profile_id

\* C19 witness: batch_process_excel returned the rows of a profile with a
\* certification, after the write of an earlier profile had failed.
C19_Witness ==
    /\ path = "batch" /\ pc = "idle"
    /\ Len(log) = 2
    /\ log[1].disp = "db_failed"
    /\ log[2].disp = "saved"
    /\ Len(profiles_data) = 1
    /\ Len(educations_data) = 1
    /\ Len(certifications_data) = 1
    /\ certifications_data[1].profile_id = profiles_data[1].profile_id

\* C20: format_date gives MM/YYYY, the month padded to two digits, when the
\* month and the year are given; "Present" only for an absent end date;
\* "N/A" for a date pair with no month and no year.
C20_DateEncoding ==
    pc = "formatted" =>
        \A end \in BOOLEAN :
            LET d == IF end THEN record.ends_at ELSE record.starts_at
                text == IF end THEN out.end_date ELSE out.start_date
                Two(n) == IF n < 10 THEN <<"0">> \o Digits(n) ELSE Digits(n)
            IN  /\ (d.tag = "dict" /\ d.month.tag = "int" /\ d.year.tag = "int") =>
                       text = Two(d.month.n) \o <<"/">> \o Digits(d.year.n)
                /\ text = Present => (end /\ d.tag = "null")
                /\ (d.tag = "dict" /\ d.month.tag # "int" /\ d.year.tag # "int") =>
                       text = NotAvailable

\* The rows of a table stored under a profile_id.
RowsOf(rows, pid) == {r \in rows : r.profile_id = pid}

\* C21: after an insert_data that committed, the child tables hold for every
\* profile_id of the batch exactly the rows the batch supplied, also when the
\* batch supplied no row for a table.
C21_ChildrenFullyReplaced ==
    [][(/\ pc \in {"batch", "csv"} /\ pc' = "idle"
        /\ result' # "error_unexpected"
        /\ profiles_data # <<>>
        /\ \/ path = "batch" /\ report'.db = "saved"
           \/ path = "csv" /\ faults' = faults) =>
           \A pid \in ProfileIds(profiles_data) :
               /\ RowsOf(db'.educations, pid)
                      = RowsOf(SeqToSet(educations_data), pid)
               /\ RowsOf(db'.certifications, pid)
                      = RowsOf(SeqToSet(certifications_data), pid)
       ]_vars

\* C22: a run reports the profiles of its collections as saved in the
\* database only if their rows are committed in the relational store.
C22_ReportedSaveIsCommitted ==
    (pc = "idle" /\ report.db = "saved") =>
        \A k \in 1..Len(profiles_data) :
            HasRow(db.profiles, profiles_data[k].profile_id,
                   profiles_data[k].profile_url)

\* C27: a run of process_linkedin_data that fetched a profile, with no fault
\* of the store or the file, has merged its rows into the spreadsheet and
\* returned the path.
C27_CsvRunWritesSheet ==
    (/\ path = "csv" /\ pc = "idle" /\ result # "error_unexpected"
     /\ profiles_data # <<>> /\ faults = 0) =>
        /\ result = "success"
        /\ xl.exists
        /\ \A k \in 1..Len(profiles_data) :
               profiles_data[k] \in SeqToSet(xl.profiles)

\* C28: no step changes the profile_url of a profile row of the relational
\* store.
C28_UrlOfIdNeverChanges ==
    [][\A r \in db.profiles : \A q \in db'.profiles :
           q.profile_id = r.profile_id => q.profile_url = r.profile_url]_vars

\* C30: batch_process_excel returns five collections on every return path.
C30_FiveCollections ==
    (path = "batch" /\ pc = "idle" /\ report.returned # 0) =>
        report.returned = 5

\* C23: whatever happens to a call of write_to_excel, the file afterwards is
\* the file from before the call or the complete merged result.
C23_AtomicReplace ==
    pc = "excel_done" =>
        \/ out.xl = xl
        \/ /\ out.xl = write_to_excel(xl, profiles_data, educations_data,
                                      List(certifications_data), FALSE).xl
           /\ out.xl.missing = {}

\* Every child row of a file carries the profile_id of one of its profile rows.
Consistent(profiles, children) ==
    \A c \in SeqToSet(children) :
        \E k \in 1..Len(profiles) : profiles[k].profile_id = c.profile_id

\* C29: a merge of a consistent batch into a consistent file gives a
\* consistent file.
C29_MergeKeepsReferences ==
    (/\ Merged
     /\ Consistent(xl.profiles, xl.educations \o xl.certifications)
     /\ Consistent(profiles_data, educations_data \o certifications_data)) =>
        Consistent(out.xl.profiles, out.xl.educations \o out.xl.certifications)

\* C24: a current title "TeamLead" is split into "team" and "lead", and the
\* exact-token rule makes is_leadership_role return true.
C24_CamelCaseTitleLeads ==
    (/\ pc = "detected"
     /\ Experiences(record) # <<>>
     /\ Experiences(record)[1].title = TeamLead) =>
        out.leadership_role = Returns(TRUE)

\* C25: a full name that the provider omits or sends as null is the empty
\* string in the record of fetch_linkedin_data.
C25_AbsentNameIsEmpty ==
    (pc = "classified" /\ record.full_name \in {Missing, Null}) =>
        fetch_linkedin_data(record).full_name = StrV(<<>>)

\* C26: on both paths every field of the profile row handed to the store and
\* to the spreadsheet is a string, and skills, languages and certifications
\* are the provider's items joined with ", ".
C26_ListsAreJoined ==
    pc \in {"batch_row", "csv_row"} =>
        /\ \A sink \in {"store", "sheet"} :
               \A f \in DOMAIN out[sink] : out[sink][f].type = "str"
        /\ out.sheet.skills = AsStr(record.skills)
        /\ out.sheet.languages = AsStr(record.languages)
        /\ out.sheet.certifications = AsStr(record.certifications)

====
